---- MODULE Spec2Model ----
(***************************************************************************)
(* The three example notebooks of docs/examples as state machines:         *)
(*   frozen_layer.ipynb  (Spec)          training with frozen parameters   *)
(*   init_apply.ipynb    (SpecInitApply) the init/apply wrapper            *)
(*   stateful.ipynb      (SpecStateful)  BatchNorm / SpectralNorm state    *)
(* A PyTree is a function from leaf paths to leaf values.  Arrays are     *)
(* abstracted to their shape and an integer content.                       *)
(***************************************************************************)
EXTENDS Integers, Sequences, FiniteSets, TLC

VARIABLES
    \* frozen_layer.ipynb: the arguments of main
    depth, width_size, steps, dataset_size, batch_size, seed,
    \* frozen_layer.ipynb: the locals of main and the generator's frame
    data, loader, batch, model, original_model, filter_spec, opt_state, step, pc,
    \* frozen_layer.ipynb: history of the generator (the index batches yielded
    \* in the current epoch, the number of batches yielded in all, the key and
    \* permutation of every epoch started)
    loader_log,
    \* init_apply.ipynb: the argument of main, the locals of make_mlp that
    \* init_fn and apply_fn close over, and the locals of main
    ia_in_size, ia_width, ia_mlp, ia_closure, ia_x, ia_params, ia_y1, ia_y2, ia_pc,
    \* stateful.ipynb: the globals of the notebook
    sf_steps, sf_xs, sf_ys, sf_model, sf_state, sf_opt_state, sf_step,
    sf_inference_model, sf_test_xs, sf_pred_test_ys, sf_pc,
    \* stateful.ipynb: history (what Model(mkey) itself holds, the arguments
    \* and results of the make_step calls, the last vmapped call of the
    \* model, the evaluations made)
    sf_direct, sf_calls, sf_last, sf_evals

flVars == <<depth, width_size, steps, dataset_size, batch_size, seed,
            data, loader, batch, model, original_model, filter_spec,
            opt_state, step, pc, loader_log>>

iaVars == <<ia_in_size, ia_width, ia_mlp, ia_closure, ia_x, ia_params,
            ia_y1, ia_y2, ia_pc>>

sfVars == <<sf_steps, sf_xs, sf_ys, sf_model, sf_state, sf_opt_state, sf_step,
            sf_inference_model, sf_test_xs, sf_pred_test_ys, sf_pc,
            sf_direct, sf_calls, sf_last, sf_evals>>

vars == <<flVars, iaVars, sfVars>>

--------------------------------------------------------------------------
\* Bounds of the model.
MaxDepth == 2
MaxWidth == 2
MaxSteps == 2
MaxDataset == 3
MaxSeed == 1
MaxEpochs == 2
IaMaxInSize == 2
IaMaxWidth == 1
SfMaxRows == 2
SfMaxSteps == 2
SfMaxEvals == 2

--------------------------------------------------------------------------
\* PyTree leaves.  Every leaf value is a record [kind, shape, v].

None == [kind |-> "none", shape |-> <<>>, v |-> 0]

Arr(shape, v) == [kind |-> "f32", shape |-> shape, v |-> v]

Callable(name) == [kind |-> name, shape |-> <<>>, v |-> 0]

is_inexact_array(x) == x.kind = "f32"

EmptyTree == [l \in {} |-> None]

\* A leaf path: tree.<top>[idx].<field>, or tree.<top> when field = "".
LayerLeaf(i, f) == [top |-> "layers", idx |-> i, field |-> f]

TopLeaf(name) == [top |-> name, idx |-> 0, field |-> ""]

\* Python's sequence index: a negative index counts from the end.
PyIndex(n, i) == IF i < 0 THEN n + i ELSE i

\* jax.random: a key is a number, split(key, n)[i] the i-th child of key.
PRNGKey(s) == s

Split(key, n) == [i \in 1..n |-> key * (n + 1) + i]

\* jrandom.permutation(key, jnp.arange(n)): a permutation of 0..n-1 that the
\* key determines (a rotation, reflected for every other block of n keys).
permutation(key, n) ==
    [i \in 1..n |->
        IF (key \div n) % 2 = 0
        THEN (i - 1 + key) % n
        ELSE (n - 1) - ((i - 1 + key) % n)]

--------------------------------------------------------------------------
\* eqx.nn.MLP: depth + 1 Linear layers (a single one when depth = 0) and the
\* two activation functions.
NumLayers(d) == d + 1

MLPLeaves(d) ==
    {LayerLeaf(i, f) : i \in 0..(NumLayers(d) - 1), f \in {"weight", "bias"}}
        \cup {TopLeaf("activation"), TopLeaf("final_activation")}

LayerIn(i, d, in_size, width) == IF i = 0 THEN in_size ELSE width

LayerOut(i, d, out_size, width) == IF i = NumLayers(d) - 1 THEN out_size ELSE width

MLPArrayLeaves(d) ==
    {LayerLeaf(i, f) : i \in 0..(NumLayers(d) - 1), f \in {"weight", "bias"}}

MLPShape(l, in_size, out_size, width, d) ==
    IF l.field = "weight"
    THEN <<LayerOut(l.idx, d, out_size, width), LayerIn(l.idx, d, in_size, width)>>
    ELSE <<LayerOut(l.idx, d, out_size, width)>>

\* draw[l] is the content that the initialiser draws from key for array l.
MLP(in_size, out_size, width, d, draw) ==
    [l \in MLPLeaves(d) |->
        IF l.top = "activation" THEN Callable("relu")
        ELSE IF l.top = "final_activation" THEN Callable("identity")
        ELSE Arr(MLPShape(l, in_size, out_size, width, d), draw[l])]

TreeNumLayers(tree) == Cardinality({l.idx : l \in {k \in DOMAIN tree : k.top = "layers"}})

\* jtu.tree_map(lambda _: c, tree)
TreeMapConst(c, tree) == [l \in DOMAIN tree |-> c]

\* eqx.tree_at(where, tree, replace=(c, c, ...)): where is the set of leaves
\* the selector returns.
TreeAt(where, tree, c) == [l \in DOMAIN tree |-> IF l \in where THEN c ELSE tree[l]]

\* eqx.partition(tree, spec) with a tree of booleans as spec.
Partition(tree, spec) ==
    [diff   |-> [l \in DOMAIN tree |-> IF spec[l] THEN tree[l] ELSE None],
     static |-> [l \in DOMAIN tree |-> IF spec[l] THEN None ELSE tree[l]]]

\* eqx.partition(tree, filter) with a predicate on leaves as filter.
PartitionBy(tree, Filter(_)) ==
    Partition(tree, [l \in DOMAIN tree |-> Filter(tree[l])])

\* eqx.combine(a, b): the first leaf that is not None.
Combine(a, b) == [l \in DOMAIN a |-> IF a[l] # None THEN a[l] ELSE b[l]]

\* eqx.filter_grad: a gradient for every inexact array leaf of the first
\* argument, None elsewhere.  g holds the values of the derivative, one for
\* the weights and one for the biases.
FilterGrad(diff_model, g) ==
    [l \in DOMAIN diff_model |->
        IF is_inexact_array(diff_model[l])
        THEN Arr(diff_model[l].shape, g[l.field])
        ELSE None]

\* optax.sgd(learning_rate).update: updates = -learning_rate * grads, in
\* units of the learning rate; sgd keeps no state.
SgdUpdate(grads, state) ==
    [updates |-> [l \in DOMAIN grads |->
                    IF grads[l] = None THEN None
                    ELSE Arr(grads[l].shape, 0 - grads[l].v)],
     opt_state |-> state]

\* eqx.apply_updates(model, updates): leaf + update where there is an update.
ApplyUpdates(m, updates) ==
    [l \in DOMAIN m |->
        IF updates[l] = None THEN m[l]
        ELSE Arr(m[l].shape, m[l].v + updates[l].v)]

--------------------------------------------------------------------------
\* frozen_layer.ipynb

\* The content of a parameter array, abstracted to one number: one draw
\* from key, distinct per leaf.
InitContent(key, d) ==
    [l \in MLPArrayLeaves(d) |-> key + 2 * l.idx + (IF l.field = "weight" THEN 0 ELSE 1)]

\* get_data: x one draw per row, y = 5 * x - 2.
get_data(n, key) ==
    LET x == [r \in 1..n |-> (((key + 1) * r) % 5) - 2]
    IN  [x |-> x, y |-> [r \in 1..n |-> 5 * x[r] - 2]]

\* perm[start:end]
Slice(s, start, end) ==
    SubSeq(s, start + 1, IF end < Len(s) THEN end ELSE Len(s))

\* array[batch_perm]
Take(array, batch_perm) == [i \in 1..Len(batch_perm) |-> array[batch_perm[i] + 1]]

\* A selector that takes layers[0] where the code takes layers[-1].
FirstLayerLeaves(tree) ==
    {LayerLeaf(PyIndex(TreeNumLayers(tree), 0), "weight"),
     LayerLeaf(PyIndex(TreeNumLayers(tree), 0), "bias")}

\* main, Step 2: the selector of tree_at.
FinalLayerLeaves(tree) ==
    {LayerLeaf(PyIndex(TreeNumLayers(tree), -1), "weight"),
     LayerLeaf(PyIndex(TreeNumLayers(tree), -1), "bias")}

FilterSpec(m) == TreeAt(FinalLayerLeaves(m), TreeMapConst(FALSE, m), TRUE)

\* The derivatives filter_grad may return.
GradValues == [{"weight", "bias"} -> {-1, 0, 1}]

\* A make_step that partitions by is_inexact_array where the code partitions
\* by filter_spec: every array is differentiated.
make_step_all_arrays(m, spec, x, y, state, g) ==
    LET parts == PartitionBy(m, is_inexact_array)
        grads == FilterGrad(parts.diff, g)
        upd   == SgdUpdate(grads, state)
    IN  [model |-> ApplyUpdates(m, upd.updates), opt_state |-> upd.opt_state]

\* main.make_step
make_step(m, spec, x, y, state, g) ==
    LET parts == Partition(m, spec)
        grads == FilterGrad(parts.diff, g)
        upd   == SgdUpdate(grads, state)
    IN  [model |-> ApplyUpdates(m, upd.updates), opt_state |-> upd.opt_state]

NoLog == [yielded |-> <<>>, drawn |-> 0, epochs |-> <<>>]

FlIdle ==
    /\ depth = 0
    /\ width_size = 0
    /\ steps = 0
    /\ dataset_size = 0
    /\ batch_size = 0
    /\ seed = 0
    /\ data = [x |-> <<>>, y |-> <<>>]
    /\ loader = [key |-> 0, perm |-> <<>>, start |-> 0, end |-> 0,
                 epochs |-> 0, at |-> "unstarted"]
    /\ batch = [x |-> <<>>, y |-> <<>>]
    /\ model = EmptyTree
    /\ original_model = EmptyTree
    /\ filter_spec = EmptyTree
    /\ opt_state = "none"
    /\ step = 0
    /\ loader_log = NoLog
    /\ pc = "idle"

FlArgs(depths, widths) ==
    /\ depth \in depths
    /\ width_size \in widths
    /\ steps \in 0..MaxSteps
    /\ dataset_size \in 1..MaxDataset
    /\ batch_size \in 1..MaxDataset
    /\ seed \in 0..MaxSeed
    /\ data = [x |-> <<>>, y |-> <<>>]
    /\ loader = [key |-> 0, perm |-> <<>>, start |-> 0, end |-> 0,
                 epochs |-> 0, at |-> "unstarted"]
    /\ batch = [x |-> <<>>, y |-> <<>>]
    /\ model = EmptyTree
    /\ original_model = EmptyTree
    /\ filter_spec = EmptyTree
    /\ opt_state = "none"
    /\ step = 0
    /\ loader_log = NoLog
    /\ pc = "setup"

FlInit == FlArgs(0..MaxDepth, 1..MaxWidth)

\* main up to the training loop: the keys, the data, the generator object
\* (its body does not run before the first next()), the model, filter_spec,
\* original_model and the optimiser state.
MainSetup ==
    /\ pc = "setup"
    /\ LET keys == Split(PRNGKey(seed), 3)
           m    == MLP(1, 1, width_size, depth, InitContent(keys[3], depth))
       IN  /\ data' = get_data(dataset_size, keys[1])
           /\ loader' = [loader EXCEPT !.key = keys[2], !.at = "start"]
           /\ model' = m
           /\ filter_spec' = FilterSpec(m)
           /\ original_model' = m
    /\ opt_state' = "EmptyState"
    /\ pc' = "zip"
    /\ UNCHANGED <<iaVars, sfVars, loader_log, depth, width_size, steps, dataset_size, batch_size, seed,
                   batch, step>>

\* A loop over range(steps + 1): one more batch is drawn and one more step
\* made.
MainZipOneMore ==
    /\ pc = "zip"
    /\ pc' = IF step <= steps THEN "next" ELSE "done"
    /\ UNCHANGED <<iaVars, sfVars, loader_log, depth, width_size, steps, dataset_size, batch_size, seed,
                   data, loader, batch, model, original_model, filter_spec,
                   opt_state, step>>

\* zip(range(steps), data_iter): range is asked first; when it is exhausted
\* the loop ends without asking data_iter.
MainZip ==
    /\ pc = "zip"
    /\ pc' = IF step < steps THEN "next" ELSE "done"
    /\ UNCHANGED <<iaVars, sfVars, loader_log, depth, width_size, steps, dataset_size, batch_size, seed,
                   data, loader, batch, model, original_model, filter_spec,
                   opt_state, step>>

\* dataloader, the top of `while True`: a new permutation, the key split,
\* start and end reset.  Runs on the first next() and after every epoch.
LoaderEpoch ==
    /\ pc = "next"
    /\ loader.at \in {"start", "epoch"}
    /\ loader.epochs < MaxEpochs
    /\ \E p \in {permutation(loader.key, dataset_size)} :
          /\ loader' = [key |-> Split(loader.key, 1)[1], perm |-> p, start |-> 0,
                        end |-> batch_size, epochs |-> loader.epochs + 1,
                        at |-> "while"]
          /\ loader_log' = [loader_log EXCEPT
                !.yielded = <<>>,
                !.epochs = Append(@, [key |-> loader.key, perm |-> p])]
    /\ UNCHANGED <<iaVars, sfVars, depth, width_size, steps, dataset_size, batch_size, seed,
                   data, batch, model, original_model, filter_spec,
                   opt_state, step, pc>>

\* A dataloader whose inner loop runs while end <= dataset_size: it also
\* yields the last batch of an epoch when that batch is full.
LoaderYieldFullLast ==
    /\ pc = "next"
    /\ loader.at = "while"
    /\ loader.end <= dataset_size
    /\ LET batch_perm == Slice(loader.perm, loader.start, loader.end)
       IN  /\ batch' = [x |-> Take(data.x, batch_perm), y |-> Take(data.y, batch_perm)]
           /\ loader_log' = [loader_log EXCEPT
                 !.yielded = Append(@, batch_perm), !.drawn = @ + 1]
    /\ loader' = [loader EXCEPT !.at = "yield"]
    /\ pc' = "step"
    /\ UNCHANGED <<iaVars, sfVars, depth, width_size, steps, dataset_size, batch_size, seed,
                   data, model, original_model, filter_spec, opt_state, step>>

\* A dataloader that indexes the first array with batch_perm and slices the
\* second one with start:end.
LoaderYieldUnpermutedY ==
    /\ pc = "next"
    /\ loader.at = "while"
    /\ loader.end < dataset_size
    /\ LET batch_perm == Slice(loader.perm, loader.start, loader.end)
       IN  /\ batch' = [x |-> Take(data.x, batch_perm), y |-> Slice(data.y, loader.start, loader.end)]
           /\ loader_log' = [loader_log EXCEPT
                 !.yielded = Append(@, batch_perm), !.drawn = @ + 1]
    /\ loader' = [loader EXCEPT !.at = "yield"]
    /\ pc' = "step"
    /\ UNCHANGED <<iaVars, sfVars, depth, width_size, steps, dataset_size, batch_size, seed,
                   data, model, original_model, filter_spec, opt_state, step>>

\* dataloader, `while end < dataset_size` holds: the batch is yielded and
\* the generator is suspended at the yield.
LoaderYield ==
    /\ pc = "next"
    /\ loader.at = "while"
    /\ loader.end < dataset_size
    /\ LET batch_perm == Slice(loader.perm, loader.start, loader.end)
       IN  /\ batch' = [x |-> Take(data.x, batch_perm), y |-> Take(data.y, batch_perm)]
           /\ loader_log' = [loader_log EXCEPT
                 !.yielded = Append(@, batch_perm), !.drawn = @ + 1]
    /\ loader' = [loader EXCEPT !.at = "yield"]
    /\ pc' = "step"
    /\ UNCHANGED <<iaVars, sfVars, depth, width_size, steps, dataset_size, batch_size, seed,
                   data, model, original_model, filter_spec, opt_state, step>>

\* A dataloader that does not advance start and end after a yield.
LoaderResumeSameSlice ==
    /\ pc = "next"
    /\ loader.at = "yield"
    /\ loader' = [loader EXCEPT !.at = "while"]
    /\ UNCHANGED <<iaVars, sfVars, loader_log, depth, width_size, steps, dataset_size, batch_size, seed,
                   data, batch, model, original_model, filter_spec,
                   opt_state, step, pc>>

\* dataloader, resumed after the yield: start and end advance.
LoaderResume ==
    /\ pc = "next"
    /\ loader.at = "yield"
    /\ loader' = [loader EXCEPT !.start = loader.end,
                                !.end = loader.end + batch_size,
                                !.at = "while"]
    /\ UNCHANGED <<iaVars, sfVars, loader_log, depth, width_size, steps, dataset_size, batch_size, seed,
                   data, batch, model, original_model, filter_spec,
                   opt_state, step, pc>>

\* dataloader, `while end < dataset_size` fails: back to `while True`.
LoaderEpochEnd ==
    /\ pc = "next"
    /\ loader.at = "while"
    /\ ~(loader.end < dataset_size)
    /\ loader' = [loader EXCEPT !.at = "epoch"]
    /\ UNCHANGED <<iaVars, sfVars, loader_log, depth, width_size, steps, dataset_size, batch_size, seed,
                   data, batch, model, original_model, filter_spec,
                   opt_state, step, pc>>

\* The body of the training loop: model, opt_state = make_step(...)
MainStep ==
    /\ pc = "step"
    /\ \E g \in GradValues :
          LET r == make_step(model, filter_spec, batch.x, batch.y, opt_state, g)
          IN  /\ model' = r.model
              /\ opt_state' = r.opt_state
    /\ step' = step + 1
    /\ pc' = "zip"
    /\ UNCHANGED <<iaVars, sfVars, loader_log, depth, width_size, steps, dataset_size, batch_size, seed,
                   data, loader, batch, original_model, filter_spec>>

FlNext ==
    \/ MainSetup
    \/ MainZip
    \/ LoaderEpoch
    \/ LoaderYield
    \/ LoaderResume
    \/ LoaderEpochEnd
    \/ MainStep

--------------------------------------------------------------------------
\* init_apply.ipynb.  Parameter contents are sequences (row-major) of
\* numerators of halves; the activations of layer i are numerators over
\* 2^i, so that the forward pass is exact.

\* The multiples of 1/2 in [-1/sqrt(fan_in), 1/sqrt(fan_in)), the interval
\* eqx.nn.Linear draws its weight and bias from.
LinearRange(fan_in) ==
    {q \in -2..2 : \/ q * q * fan_in < 4
                   \/ q < 0 /\ q * q * fan_in = 4}

Prod(shape) == IF Len(shape) = 1 THEN shape[1] ELSE shape[1] * shape[2]

\* What eqx.nn.MLP(in_size, 1, width, 1, key=key) may draw: a content for
\* each of the four arrays.
MLPDraws(in_size, width) ==
    {[l \in MLPArrayLeaves(1) |->
        IF l = LayerLeaf(0, "weight") THEN w0
        ELSE IF l = LayerLeaf(0, "bias") THEN b0
        ELSE IF l = LayerLeaf(1, "weight") THEN w1
        ELSE b1] :
      w0 \in [1..(width * in_size) -> LinearRange(in_size)],
      b0 \in [1..width -> LinearRange(in_size)],
      w1 \in [1..width -> LinearRange(width)],
      b1 \in [1..1 -> LinearRange(width)]}

RECURSIVE Dot(_, _, _, _)
\* sum over k in 1..n of w[off + k] * x[k]
Dot(w, off, x, n) == IF n = 0 THEN 0 ELSE Dot(w, off, x, n - 1) + w[off + n] * x[n]

\* eqx.nn.Linear.__call__: weight @ x + bias; x holds numerators over scale.
LinearCall(weight, bias, x, scale) ==
    [j \in 1..weight.shape[1] |->
        Dot(weight.v, (j - 1) * weight.shape[2], x, weight.shape[2])
            + bias.v[j] * scale]

Activate(fn, x) ==
    IF fn.kind = "relu" THEN [j \in 1..Len(x) |-> IF x[j] > 0 THEN x[j] ELSE 0]
    ELSE x

RECURSIVE MLPLayers(_, _, _, _)
\* eqx.nn.MLP.__call__ from layer i on: every layer but the last is followed
\* by activation, the last by final_activation.
MLPLayers(m, i, x, scale) ==
    LET h == LinearCall(m[LayerLeaf(i, "weight")], m[LayerLeaf(i, "bias")], x, scale)
    IN  IF i = TreeNumLayers(m) - 1
        THEN Activate(m[TopLeaf("final_activation")], h)
        ELSE MLPLayers(m, i + 1, Activate(m[TopLeaf("activation")], h), 2 * scale)

MLPCall(m, x) == MLPLayers(m, 0, x, 1)

\* jtu.tree_map(lambda p: p + 1, params): None is no leaf; 1 is two halves.
TreeMapPlusOne(tree) ==
    [l \in DOMAIN tree |->
        IF tree[l] = None THEN None
        ELSE Arr(tree[l].shape, [k \in 1..Len(tree[l].v) |-> tree[l].v[k] + 2])]

\* jnp.arange(n)
Arange(n) == [k \in 1..n |-> k - 1]

\* A make_mlp that closes over the two parts of the partition the wrong way
\* round.
make_mlp_swapped(mlp) ==
    LET parts == PartitionBy(mlp, is_inexact_array)
    IN  [params |-> parts.static, static |-> parts.diff]

\* make_mlp: what init_fn and apply_fn close over.
make_mlp(mlp) ==
    LET parts == PartitionBy(mlp, is_inexact_array)
    IN  [params |-> parts.diff, static |-> parts.static]

\* make_mlp.init_fn
init_fn(closure) == closure.params

\* An apply_fn that combines the params captured by make_mlp where the code
\* combines its argument.
apply_fn_captured(closure, params, x) ==
    MLPCall(Combine(closure.params, closure.static), x)

\* make_mlp.apply_fn
apply_fn(closure, params, x) ==
    MLPCall(Combine(params, closure.static), x)

IaIdle ==
    /\ ia_in_size = 0
    /\ ia_width = 0
    /\ ia_mlp = EmptyTree
    /\ ia_closure = [params |-> EmptyTree, static |-> EmptyTree]
    /\ ia_x = <<>>
    /\ ia_params = EmptyTree
    /\ ia_y1 = <<>>
    /\ ia_y2 = <<>>
    /\ ia_pc = "idle"

IaInit ==
    /\ ia_in_size \in 1..IaMaxInSize
    /\ ia_width \in 1..IaMaxWidth
    /\ ia_mlp = EmptyTree
    /\ ia_closure = [params |-> EmptyTree, static |-> EmptyTree]
    /\ ia_x = <<>>
    /\ ia_params = EmptyTree
    /\ ia_y1 = <<>>
    /\ ia_y2 = <<>>
    /\ ia_pc = "make_mlp"

\* main: init_fn, apply_fn = make_mlp(...)
IaMakeMlp ==
    /\ ia_pc = "make_mlp"
    /\ \E draw \in MLPDraws(ia_in_size, ia_width) :
          LET mlp == MLP(ia_in_size, 1, ia_width, 1, draw)
          IN  /\ ia_mlp' = mlp
              /\ ia_closure' = make_mlp(mlp)
    /\ ia_pc' = "init"
    /\ UNCHANGED <<flVars, sfVars, ia_in_size, ia_width, ia_x, ia_params,
                   ia_y1, ia_y2>>

\* main: x = jnp.arange(in_size); params = init_fn(); y1 = apply_fn(params, x)
IaFirstApply ==
    /\ ia_pc = "init"
    /\ ia_x' = Arange(ia_in_size)
    /\ ia_params' = init_fn(ia_closure)
    /\ ia_y1' = apply_fn(ia_closure, ia_params', ia_x')
    /\ ia_pc' = "update"
    /\ UNCHANGED <<flVars, sfVars, ia_in_size, ia_width, ia_mlp, ia_closure, ia_y2>>

\* main: params = jtu.tree_map(lambda p: p + 1, params)
IaUpdate ==
    /\ ia_pc = "update"
    /\ ia_params' = TreeMapPlusOne(ia_params)
    /\ ia_pc' = "apply"
    /\ UNCHANGED <<flVars, sfVars, ia_in_size, ia_width, ia_mlp, ia_closure,
                   ia_x, ia_y1, ia_y2>>

\* main: y2 = apply_fn(params, x); assert y1 != y2
IaSecondApply ==
    /\ ia_pc = "apply"
    /\ ia_y2' = apply_fn(ia_closure, ia_params, ia_x)
    /\ ia_pc' = IF ia_y1 # ia_y2' THEN "done" ELSE "AssertionError"
    /\ UNCHANGED <<flVars, sfVars, ia_in_size, ia_width, ia_mlp, ia_closure,
                   ia_x, ia_params, ia_y1>>

IaNext ==
    \/ IaMakeMlp
    \/ IaFirstApply
    \/ IaUpdate
    \/ IaSecondApply

--------------------------------------------------------------------------
\* stateful.ipynb.  An array is abstracted to one integer.  Inside a vmap
\* a value is the sequence of its per-row values; a state passed to or
\* returned from a vmap is [batched, rows]: one row when it is unbatched,
\* one row per batch row when it is stacked along axis 0.

Unbatched(st) == [batched |-> FALSE, rows |-> <<st>>]

Stacked(sts) == [batched |-> TRUE, rows |-> sts]

\* eqx.nn.StateIndex: an identity, and the initial value until
\* make_with_state removes it.
StateIndex(id, init) == [id |-> id, has_init |-> TRUE, init |-> init]

NoIndex == [id |-> 0, has_init |-> FALSE, init |-> 0]

\* One draw of the initialiser from key.
Draw(key) == (key % 3) + 1

\* eqx.nn.BatchNorm(input_size, axis_name): weight ones, bias zeros, running
\* statistics zeros, inference False.
BatchNorm(axis_name, id) ==
    [type |-> "BatchNorm", weight |-> 1, bias |-> 0, inference |-> FALSE,
     axis_name |-> axis_name, index |-> StateIndex(id, 0)]

\* eqx.nn.Linear(in_features, out_features, key)
Linear(key) ==
    [type |-> "Linear", weight |-> Draw(key), bias |-> Draw(key + 1) - 2,
     inference |-> FALSE, axis_name |-> "", index |-> NoIndex]

\* eqx.nn.SpectralNorm(layer, weight_name, key): the wrapped layer's arrays
\* and the u, v vectors of the power iteration as state.
SpectralNorm(layer, key, id) ==
    [layer EXCEPT !.type = "SpectralNorm", !.index = StateIndex(id, Draw(key))]

\* A Model.__init__ that leaves the Linear layer unwrapped where the code wraps
\* it in SpectralNorm.
ModelInitUnwrapped(key) ==
    LET keys == Split(key, 4)
    IN  [norm1 |-> BatchNorm("batch", 1),
         spectral_linear |-> Linear(keys[1]),
         norm2 |-> BatchNorm("batch", 3),
         linear1 |-> Linear(keys[3]),
         linear2 |-> Linear(keys[4])]

\* Model.__init__
ModelInit(key) ==
    LET keys == Split(key, 4)
    IN  [norm1 |-> BatchNorm("batch", 1),
         spectral_linear |-> SpectralNorm(Linear(keys[1]), keys[2], 2),
         norm2 |-> BatchNorm("batch", 3),
         linear1 |-> Linear(keys[3]),
         linear2 |-> Linear(keys[4])]

LayerNames == {"norm1", "spectral_linear", "norm2", "linear1", "linear2"}

StatefulLayers(m) == {L \in LayerNames : m[L].index.id # 0}

\* eqx.nn.State(model): the initial value of every StateIndex of the model.
State(m) ==
    [id \in {m[L].index.id : L \in StatefulLayers(m)} |->
        m[CHOOSE L \in StatefulLayers(m) : m[L].index.id = id].index.init]

\* eqx.nn.delete_init_state(model)
DeleteInitState(m) ==
    [L \in LayerNames |->
        IF m[L].index.id = 0 THEN m[L]
        ELSE [m[L] EXCEPT !.index = [id |-> m[L].index.id, has_init |-> FALSE,
                                     init |-> 0]]]

\* eqx.nn.make_with_state(Model)(key)
MakeWithState(key) ==
    LET m == ModelInit(key)
    IN  [model |-> DeleteInitState(m), state |-> Unbatched(State(m))]

\* eqx.nn.inference_mode(model)
InferenceMode(m) ==
    [L \in LayerNames |->
        [m[L] EXCEPT !.inference = (m[L].type \in {"BatchNorm", "SpectralNorm"})]]

\* K applied to the value of v, v being evaluated once.
Let(v, K(_)) == CHOOSE r \in {K(w) : w \in {v}} : TRUE

RECURSIVE SumSeq(_)
SumSeq(s) == IF Len(s) = 0 THEN 0 ELSE s[1] + SumSeq(Tail(s))

\* What a stateful layer reports of a call: the state it was given and the
\* state it returned, its mode and the named axes in scope.
Entry(name, layer, st_in, st_out, axes) ==
    [layer |-> name, st_in |-> st_in, st_out |-> st_out,
     inference |-> layer.inference, axis_name |-> layer.axis_name, axes |-> axes]

\* eqx.nn.BatchNorm.__call__ on the rows x with the per-row states st.  In
\* training mode the batch statistic is a collective over axis_name, which
\* must be in scope, and the running statistic moves towards it.
BatchNormCall(name, layer, x, st, axes) ==
    LET id == layer.index.id
        batch_mean == SumSeq(x)
        running == [i \in 1..Len(x) |->
                      IF layer.inference THEN st[i][id]
                      ELSE (st[i][id] + batch_mean + 1) \div 2]
        out == [i \in 1..Len(x) |-> (x[i] - running[i]) * layer.weight + layer.bias]
        st_out == IF layer.inference THEN st
                  ELSE [i \in 1..Len(x) |-> [st[i] EXCEPT ![id] = running[i]]]
    IN  [x |-> out, state |-> st_out,
         err |-> ~layer.inference /\ layer.axis_name \notin axes,
         entry |-> Entry(name, layer, st, st_out, axes)]

\* eqx.nn.SpectralNorm.__call__: in training mode one power iteration moves
\* u, v towards the weight's singular vectors; the wrapped layer is applied
\* with the normalised weight.
SpectralNormCall(name, layer, x, st, axes) ==
    LET id == layer.index.id
        uv == [i \in 1..Len(x) |->
                 IF layer.inference THEN st[i][id]
                 ELSE (st[i][id] + layer.weight) \div 2]
        out == [i \in 1..Len(x) |-> layer.weight * x[i] + layer.bias - uv[i]]
        st_out == IF layer.inference THEN st
                  ELSE [i \in 1..Len(x) |-> [st[i] EXCEPT ![id] = uv[i]]]
    IN  [x |-> out, state |-> st_out, err |-> FALSE,
         entry |-> Entry(name, layer, st, st_out, axes)]

LinearLayerCall(layer, x) == [i \in 1..Len(x) |-> layer.weight * x[i] + layer.bias]

Relu(x) == [i \in 1..Len(x) |-> IF x[i] > 0 THEN x[i] ELSE 0]

\* A Model.__call__ that hands norm2 the state norm1 returned where the code
\* hands it the state spectral_linear returned.
ModelCallStaleState(m, x, state, axes) ==
    Let(BatchNormCall("norm1", m.norm1, x, state, axes), LAMBDA r1 :
    Let(SpectralNormCall("spectral_linear", m.spectral_linear, r1.x, r1.state, axes),
        LAMBDA r2 :
    Let(BatchNormCall("norm2", m.norm2, Relu(r2.x), r1.state, axes), LAMBDA r3 :
        [x |-> LinearLayerCall(m.linear2, Relu(LinearLayerCall(m.linear1, r3.x))),
         state |-> r3.state, err |-> r1.err \/ r2.err \/ r3.err,
         trace |-> <<r1.entry, r2.entry, r3.entry>>])))

\* Model.__call__
ModelCall(m, x, state, axes) ==
    Let(BatchNormCall("norm1", m.norm1, x, state, axes), LAMBDA r1 :
    Let(SpectralNormCall("spectral_linear", m.spectral_linear, r1.x, r1.state, axes),
        LAMBDA r2 :
    Let(BatchNormCall("norm2", m.norm2, Relu(r2.x), r2.state, axes), LAMBDA r3 :
        [x |-> LinearLayerCall(m.linear2, Relu(LinearLayerCall(m.linear1, r3.x))),
         state |-> r3.state, err |-> r1.err \/ r2.err \/ r3.err,
         trace |-> <<r1.entry, r2.entry, r3.entry>>])))

AllSame(s) == \A i \in 1..Len(s) : s[i] = s[1]

\* jax.vmap(model, axis_name, in_axes=(0, in_state), out_axes=(0, out_state))
\* applied to (xs, state).  in_state "None" broadcasts the state to every
\* row, "0" gives row i the i-th slice of it; out_state "None" returns the
\* one state all rows agree on, "0" stacks the rows' states.  axis_name ""
\* names no axis.
VmapIn(in_state, xs, state) ==
    IF in_state = "None"
    THEN [err |-> state.batched, rows |-> [i \in 1..Len(xs) |-> state.rows[1]]]
    ELSE IF ~state.batched \/ Len(state.rows) # Len(xs)
         THEN [err |-> TRUE, rows |-> [i \in 1..Len(xs) |-> state.rows[1]]]
         ELSE [err |-> FALSE, rows |-> state.rows]

Vmap(m, axis_name, in_state, out_state, xs, state) ==
    Let(VmapIn(in_state, xs, state), LAMBDA st :
    Let(ModelCall(m, xs, st.rows, {axis_name} \ {""}), LAMBDA r :
        [pred |-> r.x,
         state |-> IF out_state = "None" THEN Unbatched(r.state[1])
                   ELSE Stacked(r.state),
         err |-> st.err \/ r.err \/ (out_state = "None" /\ ~AllSame(r.state)),
         caller_state |-> state, xs |-> xs, trace |-> r.trace]))

\* jnp.mean((pred_ys - ys) ** 2), rounded down
MeanSquare(pred_ys, ys) ==
    SumSeq([i \in 1..Len(ys) |-> (pred_ys[i] - ys[i]) * (pred_ys[i] - ys[i])])
        \div Len(ys)

\* A compute_loss whose vmap names no axis.
compute_loss_no_axis_name(m, state, xs, ys) ==
    Let(Vmap(m, "", "None", "None", xs, state), LAMBDA r :
        [loss |-> MeanSquare(r.pred, ys), state |-> r.state, err |-> r.err,
         call |-> r])

\* A compute_loss whose vmap returns the state with out_axes 0.
compute_loss_stacked_state(m, state, xs, ys) ==
    Let(Vmap(m, "batch", "None", "0", xs, state), LAMBDA r :
        [loss |-> MeanSquare(r.pred, ys), state |-> r.state, err |-> r.err,
         call |-> r])

\* compute_loss
compute_loss(m, state, xs, ys) ==
    Let(Vmap(m, "batch", "None", "None", xs, state), LAMBDA r :
        [loss |-> MeanSquare(r.pred, ys), state |-> r.state, err |-> r.err,
         call |-> r])

\* optax.adam(learning_rate): init and update, in units of the learning rate.
\* The update follows the first moment.
AdamInit == [count |-> 0, mu |-> 0]

AdamUpdate(g, state) ==
    [updates |-> 0 - (state.mu + g),
     opt_state |-> [count |-> state.count + 1, mu |-> state.mu + g]]

\* eqx.apply_updates(model, updates): the update is added to every array.
SfApplyUpdates(m, u) ==
    [L \in LayerNames |->
        [m[L] EXCEPT !.weight = m[L].weight + u, !.bias = m[L].bias + u]]

\* make_step; g is the derivative filter_grad finds.
sf_make_step(m, state, ostate, xs, ys, g) ==
    Let(compute_loss(m, state, xs, ys), LAMBDA r :
    Let(AdamUpdate(g, ostate), LAMBDA upd :
        [model |-> SfApplyUpdates(m, upd.updates), state |-> r.state,
         opt_state |-> upd.opt_state, err |-> r.err, call |-> r.call]))

\* A loop statement that drops the state make_step returned.
LoopRebindKeepsState(cur, r) ==
    [model |-> r.model, state |-> cur.state, opt_state |-> r.opt_state]

\* The statement of the training loop: what model, state, opt_state are
\* bound to after `model, state, opt_state = make_step(...)`.
LoopRebind(cur, r) ==
    [model |-> r.model, state |-> r.state, opt_state |-> r.opt_state]

\* An inference model bound to the initial state where the code binds the
\* state the training loop ended with.
MakeInferenceModelInitialState(m, state) ==
    [func |-> InferenceMode(m), state |-> MakeWithState(0).state, bound |-> TRUE]

\* inference_model = eqx.Partial(eqx.nn.inference_mode(model), state=state)
MakeInferenceModel(m, state) ==
    [func |-> InferenceMode(m), state |-> state, bound |-> TRUE]

\* evaluate: jax.vmap(model)(xs) with model the Partial; the state it holds
\* is closed over, hence broadcast; both outputs are stacked.
evaluate(partial, xs) ==
    Let(Vmap(partial.func, "", "None", "0", xs, partial.state), LAMBDA r :
        [out |-> r.pred, err |-> r.err, call |-> r])

RowValues == {0, 1}

Rows == UNION {[1..n -> RowValues] : n \in 1..SfMaxRows}

NoCall == [caller |-> "none", pred |-> <<>>, state |-> Unbatched(<<>>),
           err |-> FALSE, caller_state |-> Unbatched(<<>>), xs |-> <<>>,
           trace |-> <<>>]

\* The record of a vmapped call, with the function that made it.
CallOf(caller, r) ==
    [caller |-> caller, pred |-> r.pred, state |-> r.state, err |-> r.err,
     caller_state |-> r.caller_state, xs |-> r.xs, trace |-> r.trace]

NoModel == [L \in LayerNames |-> Linear(0)]

SfStart(k, xs, pcv) ==
    /\ sf_steps = k
    /\ sf_xs = xs
    /\ sf_ys = [i \in 1..Len(xs) |-> xs[i] + 1]
    /\ sf_model = NoModel
    /\ sf_state = Unbatched(<<>>)
    /\ sf_opt_state = AdamInit
    /\ sf_step = 0
    /\ sf_inference_model = [func |-> NoModel, state |-> Unbatched(<<>>), bound |-> FALSE]
    /\ sf_test_xs = <<>>
    /\ sf_pred_test_ys = <<>>
    /\ sf_pc = pcv
    /\ sf_direct = NoModel
    /\ sf_calls = <<>>
    /\ sf_last = NoCall
    /\ sf_evals = <<>>

SfIdle == SfStart(0, <<>>, "idle")

\* The cell up to the loop: the data (ys = sin(xs) + 1, abstracted to
\* xs + 1) are drawn.
SfInit == \E k \in 0..SfMaxSteps, xs \in Rows : SfStart(k, xs, "make")

SfSeed == 5678

\* model, state = eqx.nn.make_with_state(Model)(mkey); opt_state = optim.init(...)
SfMake ==
    /\ sf_pc = "make"
    /\ LET mkey == Split(PRNGKey(SfSeed), 3)[1]
           r == MakeWithState(mkey)
       IN  /\ sf_model' = r.model
           /\ sf_state' = r.state
           /\ sf_direct' = ModelInit(mkey)
    /\ sf_opt_state' = AdamInit
    /\ sf_pc' = "loop"
    /\ UNCHANGED <<flVars, iaVars, sf_steps, sf_xs, sf_ys, sf_step,
                   sf_inference_model, sf_test_xs, sf_pred_test_ys, sf_calls,
                   sf_last, sf_evals>>

\* One pass of `for _ in range(steps)`
SfTrain ==
    /\ sf_pc = "loop"
    /\ sf_step < sf_steps
    /\ \E g \in {-1, 0, 1} :
        \E r \in {sf_make_step(sf_model, sf_state, sf_opt_state, sf_xs, sf_ys, g)} :
          LET cur == [model |-> sf_model, state |-> sf_state, opt_state |-> sf_opt_state]
              new == LoopRebind(cur, r)
          IN  /\ sf_last' = CallOf("compute_loss", r.call)
              /\ IF r.err
                 THEN /\ sf_pc' = "error"
                      /\ UNCHANGED <<sf_model, sf_state, sf_opt_state, sf_step, sf_calls>>
                 ELSE /\ sf_model' = new.model
                      /\ sf_state' = new.state
                      /\ sf_opt_state' = new.opt_state
                      /\ sf_step' = sf_step + 1
                      /\ sf_calls' = Append(sf_calls,
                            [passed |-> cur,
                             returned |-> [model |-> r.model, state |-> r.state,
                                           opt_state |-> r.opt_state]])
                      /\ sf_pc' = "loop"
    /\ UNCHANGED <<flVars, iaVars, sf_steps, sf_xs, sf_ys, sf_inference_model,
                   sf_test_xs, sf_pred_test_ys, sf_direct, sf_evals>>

\* After the loop: the inference model is built and the test data drawn.
SfBind ==
    /\ sf_pc = "loop"
    /\ sf_step = sf_steps
    /\ sf_inference_model' = MakeInferenceModel(sf_model, sf_state)
    /\ sf_test_xs' \in Rows
    /\ sf_pc' = "evaluate"
    /\ UNCHANGED <<flVars, iaVars, sf_steps, sf_xs, sf_ys, sf_model, sf_state,
                   sf_opt_state, sf_step, sf_pred_test_ys, sf_direct, sf_calls,
                   sf_last, sf_evals>>

\* pred_test_ys = evaluate(inference_model, test_xs), any number of times,
\* on the test rows or on the training rows.
SfEvaluate ==
    /\ sf_pc = "evaluate"
    /\ Len(sf_evals) < SfMaxEvals
    /\ \E test_xs \in {sf_test_xs, sf_xs} :
        \E r \in {evaluate(sf_inference_model, test_xs)} :
              /\ sf_last' = CallOf("evaluate", r.call)
              /\ IF r.err
                 THEN /\ sf_pc' = "error"
                      /\ UNCHANGED <<sf_pred_test_ys, sf_evals>>
                 ELSE /\ sf_pred_test_ys' = r.out
                      /\ sf_evals' = Append(sf_evals, [xs |-> test_xs, out |-> r.out])
                      /\ sf_pc' = "evaluate"
    /\ UNCHANGED <<flVars, iaVars, sf_steps, sf_xs, sf_ys, sf_model, sf_state,
                   sf_opt_state, sf_step, sf_inference_model, sf_test_xs,
                   sf_direct, sf_calls>>

SfNext ==
    \/ SfMake
    \/ SfTrain
    \/ SfBind
    \/ SfEvaluate

--------------------------------------------------------------------------
Init == FlInit /\ IaIdle /\ SfIdle

Next == FlNext

Spec == Init /\ [][Next]_vars

\* main's defaults for the shape of the MLP.
DefaultWidth == 8

DefaultDepth == 1

\* main called with the default width_size and depth.
InitLive == FlArgs({DefaultDepth}, {DefaultWidth}) /\ IaIdle /\ SfIdle

\* The interpreter keeps running main and, inside next(), the generator, as
\* long as there is a statement to run.
SpecLive == InitLive /\ [][Next]_vars /\ WF_vars(Next)

InitInitApply == FlIdle /\ IaInit /\ SfIdle

SpecInitApply == InitInitApply /\ [][IaNext]_vars

InitStateful == FlIdle /\ IaIdle /\ SfInit

SpecStateful == InitStateful /\ [][SfNext]_vars

--------------------------------------------------------------------------
\* Properties of frozen_layer.ipynb (Spec)

FinalLayer == {LayerLeaf(depth, "weight"), LayerLeaf(depth, "bias")}

FirstLayer == {LayerLeaf(0, "weight"), LayerLeaf(0, "bias")}

C2_FilterSpecShape ==
    pc \notin {"idle", "setup"} =>
        /\ DOMAIN filter_spec = DOMAIN model
        /\ \A l \in DOMAIN filter_spec : filter_spec[l] = (l \in FinalLayer)
        /\ Cardinality({l \in DOMAIN filter_spec : filter_spec[l]}) = 2

\* C2's case: a model with hidden layers wider than one, whose first layer
\* and activation are marked False and whose final layer is marked True.
C2_Witness ==
    /\ pc = "zip"
    /\ depth >= 2
    /\ width_size >= 2
    /\ filter_spec[LayerLeaf(depth, "bias")]
    /\ ~filter_spec[LayerLeaf(0, "weight")]
    /\ ~filter_spec[TopLeaf("activation")]

\* C11: an epoch of the dataloader yields ceil(dataset_size / batch_size) - 1
\* batches, never more, each of batch_size rows; when batch_size >=
\* dataset_size nothing is ever yielded.
C11_BatchesPerEpoch ==
    pc \notin {"idle", "setup"} =>
        LET per_epoch == ((dataset_size + batch_size - 1) \div batch_size) - 1
        IN  /\ Len(loader_log.yielded) <= per_epoch
            /\ loader.at = "epoch" => Len(loader_log.yielded) = per_epoch
            /\ \A k \in 1..Len(loader_log.yielded) :
                  Len(loader_log.yielded[k]) = batch_size
            /\ pc = "step" =>
                  (Len(batch.x) = batch_size /\ Len(batch.y) = batch_size)
            /\ batch_size >= dataset_size => loader_log.drawn = 0

\* C11's case: an epoch over three rows in batches of two has ended after
\* one batch, the partial last batch not being yielded.
C11_Witness ==
    /\ loader.at = "epoch"
    /\ dataset_size = 3
    /\ batch_size = 2
    /\ Len(loader_log.yielded) = 1
    /\ loader_log.drawn = 1

\* C12: when steps >= 1 and batch_size < dataset_size the training loop
\* ends, having made exactly `steps` make_step calls and drawn exactly
\* `steps` batches; at no time has it drawn more than one batch beyond the
\* steps made; every request for a next batch is answered with a batch.
C12_LoopTerminates ==
    /\ []((steps >= 1 /\ batch_size < dataset_size) =>
            /\ step <= steps
            /\ loader_log.drawn <= steps
            /\ loader_log.drawn = (IF pc = "step" THEN step + 1 ELSE step)
            /\ pc = "done" => (step = steps /\ loader_log.drawn = steps))
    /\ (pc = "setup" /\ steps >= 1 /\ batch_size < dataset_size) ~> (pc = "done")
    /\ (pc = "next" /\ batch_size < dataset_size) ~> (pc = "step")

\* C12's case: a loop of two steps has ended after drawing two batches, the
\* second one from a second epoch.
C12_Witness ==
    /\ pc = "done"
    /\ steps = 2
    /\ step = 2
    /\ batch_size < dataset_size
    /\ loader_log.drawn = 2
    /\ Len(loader_log.epochs) = 2

\* C13: the batches yielded in an epoch are the consecutive slices
\* perm[0:b], perm[b:2b], ... of the epoch's permutation of 0..dataset_size-1,
\* so no row index is yielded twice in an epoch; the first epoch's
\* permutation is drawn with loader_key, every later one with the key split
\* from the key of the epoch before.
C13_SlicesOfOnePermutation ==
    Len(loader_log.epochs) >= 1 =>
        LET E    == loader_log.epochs
            perm == E[Len(E)].perm
            Y    == loader_log.yielded
        IN  /\ Len(perm) = dataset_size
            /\ {perm[i] : i \in 1..Len(perm)} = 0..(dataset_size - 1)
            /\ \A k \in 1..Len(Y) :
                  /\ k * batch_size <= dataset_size
                  /\ Y[k] = [i \in 1..batch_size |-> perm[(k - 1) * batch_size + i]]
            /\ \A k1, k2 \in 1..Len(Y) :
                  \A i1 \in 1..Len(Y[k1]), i2 \in 1..Len(Y[k2]) :
                      Y[k1][i1] = Y[k2][i2] => (k1 = k2 /\ i1 = i2)
            /\ E[1].key = Split(PRNGKey(seed), 3)[2]
            /\ \A e \in 1..Len(E) : E[e].perm = permutation(E[e].key, dataset_size)
            /\ \A e \in 1..(Len(E) - 1) : E[e + 1].key = Split(E[e].key, 1)[1]
            /\ loader.key = Split(E[Len(E)].key, 1)[1]
            /\ loader.perm = perm

\* C13's case: two batches have been yielded in one epoch, from a
\* permutation that is not the identity.
C13_Witness ==
    /\ Len(loader_log.yielded) = 2
    /\ Len(loader_log.epochs) = 1
    /\ loader_log.yielded[1] # loader_log.yielded[2]
    /\ loader_log.epochs[1].perm # <<0, 1, 2>>
    /\ dataset_size = 3

\* C14: every batch passed to make_step holds, row by row, the x and the y
\* of one dataset row, the row the index batch names, so that y = 5 * x - 2
\* holds in every row of the batch.
C14_RowsAligned ==
    pc = "step" =>
        LET batch_perm == loader_log.yielded[Len(loader_log.yielded)]
        IN  /\ Len(batch.x) = Len(batch_perm)
            /\ Len(batch.y) = Len(batch_perm)
            /\ \A i \in 1..Len(batch_perm) :
                  /\ batch.x[i] = data.x[batch_perm[i] + 1]
                  /\ batch.y[i] = data.y[batch_perm[i] + 1]
                  /\ batch.y[i] = 5 * batch.x[i] - 2

\* C14's case: a batch of two different rows, taken out of dataset order, is
\* passed to make_step.
C14_Witness ==
    /\ pc = "step"
    /\ Len(batch.x) = 2
    /\ batch.x[1] # batch.x[2]
    /\ loader_log.yielded[Len(loader_log.yielded)] # <<0, 1>>
    /\ batch.y[1] = 5 * batch.x[1] - 2

--------------------------------------------------------------------------
\* Properties of init_apply.ipynb (SpecInitApply)

\* The MLP with 1 added to every parameter.
PlusOneModel(m) ==
    [l \in DOMAIN m |->
        IF is_inexact_array(m[l])
        THEN Arr(m[l].shape, [k \in 1..Len(m[l].v) |-> m[l].v[k] + 2])
        ELSE m[l]]

\* C3: y1 is the output of the MLP with the parameters of init_fn, y2 the
\* output of the MLP with 1 added to every parameter, and they differ: the
\* assertion does not fail.
C3_ApplyUsesPassedParams ==
    /\ ia_pc # "AssertionError"
    /\ ia_pc = "done" =>
          /\ ia_y1 = MLPCall(ia_mlp, ia_x)
          /\ ia_y2 = MLPCall(PlusOneModel(ia_mlp), ia_x)
          /\ ia_y1 # ia_y2

\* C3's case: main has run to its end on two inputs with a non-zero first
\* output.
C3_Witness ==
    /\ ia_pc = "done"
    /\ ia_in_size = 2
    /\ ia_y1 # <<0>>
    /\ ia_y2 # ia_y1

\* C4: every leaf of the params of init_fn is an inexact array of the MLP;
\* every other leaf of the MLP is held in the static part only.
C4_ParamsAreInexactArrays ==
    ia_pc \notin {"idle", "make_mlp"} =>
        /\ DOMAIN init_fn(ia_closure) = DOMAIN ia_mlp
        /\ \A l \in DOMAIN ia_mlp :
              IF is_inexact_array(ia_mlp[l])
              THEN /\ init_fn(ia_closure)[l] = ia_mlp[l]
                   /\ ia_closure.static[l] = None
              ELSE /\ init_fn(ia_closure)[l] = None
                   /\ ia_closure.static[l] = ia_mlp[l]

\* C4's case: make_mlp has run; the activation is in the static part and the
\* weights are parameters.
C4_Witness ==
    /\ ia_pc = "init"
    /\ ia_closure.static[TopLeaf("activation")] = Callable("relu")
    /\ is_inexact_array(ia_closure.params[LayerLeaf(1, "weight")])

--------------------------------------------------------------------------
\* Properties of stateful.ipynb (SpecStateful)

\* C5: in every call of the model norm1 receives the caller's state,
\* spectral_linear the state norm1 returned, norm2 the state spectral_linear
\* returned, and the state returned to the caller is the one norm2 returned.
C5_StateThreadedInOrder ==
    sf_last.caller # "none" =>
        LET t == sf_last.trace
        IN  /\ Len(t) = 3
            /\ t[1].layer = "norm1"
            /\ t[2].layer = "spectral_linear"
            /\ t[3].layer = "norm2"
            /\ \A i \in 1..Len(sf_last.xs) :
                  t[1].st_in[i] = sf_last.caller_state.rows[1]
            /\ t[2].st_in = t[1].st_out
            /\ t[3].st_in = t[2].st_out
            /\ sf_last.state.rows =
                  (IF sf_last.state.batched THEN t[3].st_out ELSE <<t[3].st_out[1]>>)

\* C5's case: a training call in which both norm1 and spectral_linear
\* changed the state they were given, so that norm2 received a state that
\* is neither the caller's nor the one norm1 returned.
C5_Witness ==
    /\ sf_last.caller = "compute_loss"
    /\ sf_last.trace[1].st_out # sf_last.trace[1].st_in
    /\ sf_last.trace[2].st_out # sf_last.trace[2].st_in
    /\ sf_last.trace[3].st_in # sf_last.trace[1].st_in
    /\ sf_last.trace[3].st_in # sf_last.trace[2].st_in

SfStatefulNames == {"norm1", "spectral_linear", "norm2"}

\* C6: right after make_with_state, state holds the initial state of norm1,
\* spectral_linear and norm2 as Model(mkey) holds it, model holds the
\* parameters of Model(mkey), and model holds none of the initial states.
C6_MakeWithStateSplits ==
    (sf_pc = "loop" /\ sf_step = 0) =>
        /\ ~sf_state.batched
        /\ \A L \in SfStatefulNames : sf_direct[L].index.has_init
        /\ DOMAIN sf_state.rows[1] = {sf_direct[L].index.id : L \in SfStatefulNames}
        /\ Cardinality(DOMAIN sf_state.rows[1]) = 3
        /\ \A L \in SfStatefulNames :
              sf_state.rows[1][sf_direct[L].index.id] = sf_direct[L].index.init
        /\ \A L \in LayerNames :
              /\ [sf_model[L] EXCEPT !.index = sf_direct[L].index] = sf_direct[L]
              /\ sf_model[L].index.id = sf_direct[L].index.id
              /\ ~sf_model[L].index.has_init

\* C6's case: make_with_state has returned, and the initial state of
\* spectral_linear is not zero.
C6_Witness ==
    /\ sf_pc = "loop"
    /\ sf_step = 0
    /\ sf_state.rows[1][2] # 0
    /\ sf_direct.spectral_linear.index.init = sf_state.rows[1][2]

\* C7: evaluate leaves the state bound into inference_model unchanged, equal
\* to the final training state; it returns one prediction per row, the one
\* the inference model gives for that row with that state; evaluating the
\* same xs again gives the same result.
C7_EvaluateKeepsBoundState ==
    sf_inference_model.bound =>
        /\ sf_inference_model.state = sf_state
        /\ \A k \in 1..Len(sf_evals) :
              /\ Len(sf_evals[k].out) = Len(sf_evals[k].xs)
              /\ \A i \in 1..Len(sf_evals[k].xs) :
                    sf_evals[k].out[i] =
                        ModelCall(sf_inference_model.func, <<sf_evals[k].xs[i]>>,
                                  sf_state.rows, {}).x[1]
        /\ \A j, k \in 1..Len(sf_evals) :
              sf_evals[j].xs = sf_evals[k].xs => sf_evals[j].out = sf_evals[k].out
        /\ Len(sf_evals) >= 1 => sf_pred_test_ys = sf_evals[Len(sf_evals)].out

\* C7's case: after training that changed the state, the same two rows
\* were evaluated twice.
C7_Witness ==
    /\ Len(sf_evals) = 2
    /\ sf_evals[1].xs = sf_evals[2].xs
    /\ Len(sf_evals[1].xs) = 2
    /\ sf_step >= 1
    /\ sf_state # Unbatched(State(sf_direct))

\* C8: in compute_loss every row is evaluated against the one state passed
\* in, one unbatched state is returned, and there is one prediction per row.
C8_StateNotBatched ==
    sf_last.caller = "compute_loss" =>
        /\ ~sf_last.caller_state.batched
        /\ Len(sf_last.caller_state.rows) = 1
        /\ Len(sf_last.trace[1].st_in) = Len(sf_last.xs)
        /\ \A i \in 1..Len(sf_last.xs) :
              sf_last.trace[1].st_in[i] = sf_last.caller_state.rows[1]
        /\ ~sf_last.state.batched
        /\ Len(sf_last.state.rows) = 1
        /\ Len(sf_last.pred) = Len(sf_last.xs)
        /\ ~sf_last.err

\* C8's case: compute_loss on two different rows.
C8_Witness ==
    /\ sf_last.caller = "compute_loss"
    /\ Len(sf_last.xs) = 2
    /\ sf_last.xs[1] # sf_last.xs[2]
    /\ sf_last.state # sf_last.caller_state

\* C9: every BatchNorm call in training mode is made with the layer's
\* axis_name, "batch", among the vmapped axes in scope; a BatchNorm call made
\* without it is made by evaluate on a layer in inference mode.
C9_AxisNameMatches ==
    \A k \in 1..Len(sf_last.trace) :
        LET e == sf_last.trace[k]
        IN  e.layer \in {"norm1", "norm2"} =>
              /\ e.axis_name = "batch"
              /\ ~e.inference => e.axis_name \in e.axes
              /\ e.axis_name \notin e.axes =>
                    (e.inference /\ sf_last.caller = "evaluate")
              /\ sf_last.caller = "compute_loss" => ~e.inference

\* C9's case: the BatchNorm layers have been called in training mode by
\* compute_loss, and are now called in inference mode by evaluate.
C9_Witness ==
    /\ sf_last.caller = "evaluate"
    /\ sf_step >= 1
    /\ sf_last.trace[1].inference
    /\ sf_last.trace[1].axes = {}

\* C10: the triple passed to a make_step call is the triple the call before
\* it returned; the first call is passed what make_with_state and
\* optim.init returned; the state bound for inference is the one the last
\* call returned.
C10_TripleThreaded ==
    /\ \A k \in 1..(Len(sf_calls) - 1) : sf_calls[k + 1].passed = sf_calls[k].returned
    /\ Len(sf_calls) >= 1 =>
          /\ sf_calls[1].passed.model = DeleteInitState(sf_direct)
          /\ sf_calls[1].passed.state = Unbatched(State(sf_direct))
          /\ sf_calls[1].passed.opt_state = AdamInit
    /\ sf_inference_model.bound =>
          /\ Len(sf_calls) = sf_steps
          /\ Len(sf_calls) >= 1 =>
                sf_inference_model.state = sf_calls[Len(sf_calls)].returned.state

\* C10's case: two calls were made, each changed model, state and opt_state,
\* and the inference model was bound.
C10_Witness ==
    /\ Len(sf_calls) = 2
    /\ sf_inference_model.bound
    /\ sf_calls[2].returned.state # sf_calls[1].returned.state
    /\ sf_calls[1].returned.state # sf_calls[1].passed.state
    /\ sf_calls[2].returned.model # sf_calls[1].returned.model
    /\ sf_calls[2].returned.opt_state # sf_calls[1].returned.opt_state

====
